---- MODULE Spec2Model ----
(***************************************************************************)
(* A model of the scopus_scraper ingester: the resilient fetch client      *)
(* (core/scraper.py), the persistence layer (core/db/connector.py over the *)
(* schema of core/db/models.py), the validation layer (core/schemes.py)    *)
(* and the batch driver (main.py).                                         *)
(***************************************************************************)
EXTENDS Integers, Sequences, FiniteSets, TLC

(***************************************************************************)
(* Bounds of the model.                                                    *)
(***************************************************************************)
\* How many bad responses (an error status, a transport error, an undecodable
\* body) the remote side may give in one run of the client alone, and in one run
\* of the batch driver.
MaxFaults == 5
MaxDriverFaults == 2
\* How many connector operations one run of the store alone makes.
MaxOps == 4
\* The interpreter's recursion limit, counted in nested retry-wrapped calls.
RecursionLimit == 2

(***************************************************************************)
(* Program constants.                                                      *)
(***************************************************************************)
\* scraper.py:17  stop_retry = stop_after_attempt(5)
stop_retry == 5

VARIABLES
    stack,      \* the client's call stack of retry-wrapped calls, innermost last
    cookies,    \* self._session.cookies: the names of the cookies held
    headers,    \* the identity profile in self._session.headers ("none" before the first)
    closed,     \* self._session.close() has been called
    resp,       \* the outcome of the most recent HTTP request
    ret,        \* how the most recent top-level client call ended
    profiles,   \* identity profiles generated so far, modulo 2
    faults,     \* bad responses given so far
    faultLimit  \* how many bad responses the remote side may give in this run

clientVars == <<stack, cookies, headers, closed, resp, ret, profiles, faults, faultLimit>>

VARIABLES
    db,         \* the committed tables: what every later session sees
    session,    \* the tables as the open session's transaction sees them
    txFailed,   \* a statement failed in the open transaction (aborted until rollback)
    dbOps,      \* connector operations run so far (the store run alone bounds them)
    last        \* the most recent connector operation and how it ended

storeVars == <<db, session, txFailed, dbOps, last>>

VARIABLES
    pc,         \* where main() is ("idle": main is not running)
    seedIdx,    \* the index in the seed list of the author main() is at
    documents,  \* the raw documents _get_documents returned, those not yet inserted
    todo,       \* the author ids _get_documents_authors has yet to look at
    authors,    \* the raw author records fetched, those not yet inserted
    crash,      \* the exception that ended main() ("none": none did)
    unit        \* the most recent insert unit and how it ended

driverVars == <<pc, seedIdx, documents, todo, authors, crash, unit>>

VARIABLES
    given,      \* the raw record handed to a model of core/schemes.py
    result      \* what its validation produced ("pending" before it ran)

schemeVars == <<given, result>>

VARIABLES
    instance,       \* ScopusClient._instance: whether it is made, and its _proxies
    sessionProxies, \* self._session.proxies of the instance
    asked,          \* the proxies argument of the most recent construction
    sent            \* the most recent request: who sent it, with which proxies (<<>>: none yet)

singletonVars == <<instance, sessionProxies, asked, sent>>

vars == <<clientVars, storeVars, driverVars, schemeVars, singletonVars>>

(***************************************************************************)
(* The remote side: what one HTTP request can produce.                     *)
(***************************************************************************)
Statuses == {200, 304, 400, 403, 404, 500}
TransportErrors == {"ProxyError", "ConnectTimeout", "ReadTimeout"}
Identities == {"ua1", "ua2"}
AuthorIds == {"a1", "a2"}

NoResp == [status |-> 0, json |-> FALSE, exc |-> "none"]
Responses ==
    [status : Statuses, json : BOOLEAN, exc : {"none"}]
        \cup [status : {0}, json : {FALSE}, exc : TransportErrors]

\* The handshake's answers are pages: whether they decode as JSON plays no part.
PageResponses == {r \in Responses : ~r.json}

\* Answers that cost the remote side nothing of its fault budget: a page that is
\* no error, a 200 with a decodable body.
IsCleanPage(r) == r.exc = "none" /\ r.status < 400
IsClean(r) == r.exc = "none" /\ r.status = 200 /\ r.json

(***************************************************************************)
(* requests.exceptions: the classes each exception is an instance of.      *)
(***************************************************************************)
Mro(e) ==
    CASE e = "HTTPError"       -> {"HTTPError", "RequestException"}
      [] e = "ProxyError"      -> {"ProxyError", "ConnectionError", "RequestException"}
      [] e = "ConnectTimeout"  -> {"ConnectTimeout", "ConnectionError", "Timeout",
                                   "RequestException"}
      [] e = "ReadTimeout"     -> {"ReadTimeout", "Timeout", "RequestException"}
      [] e = "JSONDecodeError" -> {"JSONDecodeError", "InvalidJSONError",
                                   "RequestException"}
      [] e = "RecursionError"  -> {"RecursionError", "RuntimeError"}
      [] OTHER                 -> {e}

\* scraper.py:14
request_exc == {"RequestException", "JSONDecodeError", "ProxyError", "ConnectTimeout"}

\* retry=retry_if_exc_type(request_exc)
Retryable(e) == Mro(e) \cap request_exc # {}

\* The decorators pass no stop=, so tenacity's default (stop_never) applies;
\* stop_retry is defined and never used.
StopCondition(attempt) == FALSE

\* A variant of raise_for_status() that lets 4xx pass.
RaisesForStatus_5xxOnly(s) == s >= 500 /\ s < 600

\* Response.raise_for_status(): HTTPError for 4xx and 5xx only.
RaisesForStatus(s) == s >= 400 /\ s < 600

\* A variant that forgets 404 in the soft-empty list.
SoftEmpty_Without404 == {400, 403}

\* get_author / get_author_documents: `if response.status_code in [400, 403, 404]`
SoftEmpty == {400, 403, 404}

(***************************************************************************)
(* The except clauses of each retry-wrapped function, in source order.     *)
(***************************************************************************)
FetchFns == {"get_author", "get_author_documents"}

\* A variant whose first clause catches every RequestException, as the fetch
\* functions' first clause does.
AuthClauses_CatchAll ==
    << [types |-> {"RequestException"}, reset |-> TRUE],
       [types |-> {"ProxyError", "ConnectTimeout"}, reset |-> FALSE] >>

AuthClauses ==
    << [types |-> {"HTTPError"}, reset |-> TRUE],
       [types |-> {"ProxyError", "ConnectTimeout"}, reset |-> FALSE] >>

\* A variant whose first clause logs and re-raises without _reset_client().
FetchClauses_NoReset ==
    << [types |-> {"RequestException", "JSONDecodeError"}, reset |-> FALSE],
       [types |-> {"ProxyError", "ConnectTimeout"}, reset |-> FALSE] >>

FetchClauses ==
    << [types |-> {"RequestException", "JSONDecodeError"}, reset |-> TRUE],
       [types |-> {"ProxyError", "ConnectTimeout"}, reset |-> FALSE] >>

ExceptClauses(fn) == IF fn = "_scopus_auth" THEN AuthClauses ELSE FetchClauses

\* Python takes the first clause the exception is an instance of (0: none).
FirstClause(fn, e) ==
    LET cl == ExceptClauses(fn)
        hit == {i \in 1..Len(cl) : cl[i].types \cap Mro(e) # {}}
    IN IF hit = {} THEN 0 ELSE CHOOSE i \in hit : \A j \in hit : i <= j

(***************************************************************************)
(* Frames of the call stack.                                               *)
(***************************************************************************)
EntryPc(fn) == IF fn = "_scopus_auth" THEN "claim" ELSE "request"

NewFrame(fn, arg) ==
    [fn |-> fn, arg |-> arg, pc |-> EntryPc(fn), attempt |-> 1, sleeps |-> 0,
     exc |-> "none", reset |-> "none"]

Top == stack[Len(stack)]
Pop(stk) == SubSeq(stk, 1, Len(stk) - 1)
SetTop(stk, f) == [stk EXCEPT ![Len(stk)] = f]

NoRet == [kind |-> "none", val |-> "none"]
Returned(v) == [kind |-> "return", val |-> v]
Raised(e) == [kind |-> "raise", val |-> e]

\* The outcome of a step of the client: the new stack, session state and result.
Out(stk, ck, hd, rt) == [stack |-> stk, cookies |-> ck, headers |-> hd, ret |-> rt, rotated |-> FALSE]

\* _update_session_headers (scraper.py:56-73) has run in this step.
Rotated(o) == [o EXCEPT !.rotated = TRUE]

(***************************************************************************)
(* tenacity's wrapper: exception e has left the body of the function of    *)
(* the top frame. Retried after a sleep when retryable and not stopped,    *)
(* else re-raised into the caller, which is inside its own except clause   *)
(* (calling _reset_client) and lets it pass to its own wrapper.            *)
(***************************************************************************)
RECURSIVE Propagate(_, _, _)
Propagate(stk, e, rt) ==
    IF stk = <<>> THEN [stack |-> <<>>, ret |-> Raised(e)]
    ELSE LET f == stk[Len(stk)] IN
         IF Retryable(e) /\ ~StopCondition(f.attempt)
         THEN [stack |-> SetTop(stk, [f EXCEPT !.pc = "sleep", !.exc = e]), ret |-> rt]
         ELSE Propagate(Pop(stk), e, rt)

\* _scopus_auth is called with stk as the stack of its callers.
CallAuth(stk, rt) ==
    IF Len(stk) >= RecursionLimit
    THEN Propagate(stk, "RecursionError", rt)
    ELSE [stack |-> Append(stk, NewFrame("_scopus_auth", "none")), ret |-> rt]

\* A variant of _reset_client that keeps the cookie jar.
ResetClient_KeepsCookies(stk, e, ck, hd, rt) ==
    LET f == stk[Len(stk)]
        inHandler == SetTop(stk, [f EXCEPT !.pc = "reset", !.exc = e, !.reset = "started"])
        c == CallAuth(inHandler, rt)
    IN Rotated(Out(c.stack, ck, hd, c.ret))

\* A variant of _reset_client that does not run the handshake again.
ResetClient_NoHandshake(stk, e, ck, hd, rt) ==
    LET f == stk[Len(stk)]
        p == Propagate(SetTop(stk, [f EXCEPT !.exc = e]), e, rt)
    IN Rotated(Out(p.stack, {}, hd, p.ret))

\* _reset_client, called in the except clause of the top frame of stk, with ck
\* the cookie jar it replaces and hd the identity profile ua_generator gives.
ResetClient(stk, e, ck, hd, rt) ==
    LET f == stk[Len(stk)]
        inHandler == SetTop(stk, [f EXCEPT !.pc = "reset", !.exc = e, !.reset = "started"])
        c == CallAuth(inHandler, rt)
    IN Rotated(Out(c.stack, {}, hd, c.ret))

\* Exception e is raised in the try block of the top frame; hd is the identity
\* ua_generator would produce.
RaiseInBody(stk, e, ck, hdOld, hd, rt) ==
    LET f == stk[Len(stk)]
        k == FirstClause(f.fn, e)
    IN IF k # 0 /\ ExceptClauses(f.fn)[k].reset
       THEN ResetClient(stk, e, ck, hd, rt)
       ELSE LET p == Propagate(SetTop(stk, [f EXCEPT !.exc = e]), e, rt)
            IN Out(p.stack, ck, hdOld, p.ret)

\* The top frame's function returns v.
ReturnFromTop(stk, v, ck, hd, rt) ==
    LET rest == Pop(stk) IN
    IF rest = <<>> THEN Out(<<>>, ck, hd, Returned(v))
    ELSE \* the caller is in its except clause, after _reset_client(): `raise`
         LET g == rest[Len(rest)]
             p == Propagate(SetTop(rest, [g EXCEPT !.reset = "done"]), g.exc, rt)
         IN Out(p.stack, ck, hd, p.ret)

Apply(o) ==
    /\ stack' = o.stack
    /\ cookies' = o.cookies
    /\ headers' = o.headers
    /\ ret' = o.ret
    /\ profiles' = IF o.rotated THEN 1 - profiles ELSE profiles

Budget(clean) ==
    /\ clean \/ faults < faultLimit
    /\ faults' = IF clean THEN faults ELSE faults + 1

(***************************************************************************)
(* Steps of the client.                                                    *)
(***************************************************************************)
\* _scopus_auth, the claim request (scraper.py:91-93).
AuthClaim ==
    /\ stack # <<>> /\ Top.fn = "_scopus_auth" /\ Top.pc = "claim"
    /\ \E r \in PageResponses, hd \in Identities :
        /\ Budget(IsCleanPage(r))
        /\ resp' = r
        /\ Apply(IF r.exc # "none"
                   THEN RaiseInBody(stack, r.exc, cookies, headers, hd, ret)
                 ELSE IF RaisesForStatus(r.status)
                   THEN RaiseInBody(stack, "HTTPError", cookies, headers, hd, ret)
                 ELSE Out(SetTop(stack, [Top EXCEPT !.pc = "landing"]),
                          cookies \cup {"claim"}, headers, ret))
    /\ UNCHANGED <<closed, faultLimit, storeVars, driverVars, schemeVars, singletonVars>>

\* _scopus_auth, the landing request (scraper.py:94).
AuthLanding ==
    /\ stack # <<>> /\ Top.fn = "_scopus_auth" /\ Top.pc = "landing"
    /\ \E r \in PageResponses, hd \in Identities :
        /\ Budget(IsCleanPage(r))
        /\ resp' = r
        /\ Apply(IF r.exc # "none"
                   THEN RaiseInBody(stack, r.exc, cookies, headers, hd, ret)
                 ELSE IF RaisesForStatus(r.status)
                   THEN RaiseInBody(stack, "HTTPError", cookies, headers, hd, ret)
                 ELSE ReturnFromTop(stack, "None", cookies \cup {"landing"}, headers, ret))
    /\ UNCHANGED <<closed, faultLimit, storeVars, driverVars, schemeVars, singletonVars>>

\* get_author / get_author_documents, one attempt (scraper.py:105-121, 125-150).
FetchBody(r, hd) ==
    IF r.exc # "none"
      THEN RaiseInBody(stack, r.exc, cookies, headers, hd, ret)
    ELSE IF r.status \in SoftEmpty
      THEN ReturnFromTop(stack, "empty", cookies, headers, ret)
    ELSE IF RaisesForStatus(r.status)
      THEN RaiseInBody(stack, "HTTPError", cookies, headers, hd, ret)
    ELSE IF ~r.json
      THEN RaiseInBody(stack, "JSONDecodeError", cookies, headers, hd, ret)
    ELSE ReturnFromTop(stack, "json", cookies, headers, ret)

FetchRequest ==
    /\ stack # <<>> /\ Top.fn \in FetchFns /\ Top.pc = "request"
    /\ \E r \in Responses, hd \in Identities :
        /\ Budget(IsClean(r))
        /\ resp' = r
        /\ Apply(FetchBody(r, hd))
    /\ UNCHANGED <<closed, faultLimit, storeVars, driverVars, schemeVars, singletonVars>>

\* tenacity sleeps wait_to_retry and starts the next attempt.
RetrySleep ==
    /\ stack # <<>> /\ Top.pc = "sleep"
    /\ stack' = SetTop(stack, [Top EXCEPT !.pc = EntryPc(Top.fn),
                                          !.attempt = @ + 1, !.sleeps = @ + 1,
                                          !.exc = "none", !.reset = "none"])
    /\ UNCHANGED <<cookies, headers, closed, resp, ret, profiles, faults, faultLimit>>
    /\ UNCHANGED <<storeVars, driverVars, schemeVars, singletonVars>>

ClientStep == AuthClaim \/ AuthLanding \/ FetchRequest \/ RetrySleep

(***************************************************************************)
(* The client's public operations, as a caller starts them.                *)
(***************************************************************************)
\* __enter__ -> _init_client (scraper.py:35-48).
InitClient(hd) ==
    LET c == CallAuth(<<>>, NoRet) IN
    /\ stack' = c.stack
    /\ ret' = c.ret
    /\ headers' = hd
    /\ profiles' = 1 - profiles
    /\ UNCHANGED <<cookies, resp, faults, faultLimit>>

\* get_author(author_id) / get_author_documents(author_id) is called.
StartFetch(fn, id) ==
    /\ stack' = <<NewFrame(fn, id)>>
    /\ ret' = NoRet
    /\ UNCHANGED <<cookies, headers, closed, resp, profiles, faults, faultLimit>>

\* __exit__ (scraper.py:39-42).
ExitClient ==
    /\ closed' = TRUE
    /\ ret' = NoRet
    /\ UNCHANGED <<stack, cookies, headers, resp, profiles, faults, faultLimit>>

ClientInit(limit) ==
    /\ faultLimit = limit
    /\ stack = <<>>
    /\ cookies = {}
    /\ headers = "none"
    /\ closed = FALSE
    /\ resp = NoResp
    /\ ret = NoRet
    /\ profiles = 0
    /\ faults = 0

(***************************************************************************)
(* The client under an arbitrary caller.                                   *)
(***************************************************************************)
CallEnter ==
    /\ stack = <<>>
    /\ \E hd \in Identities : InitClient(hd)
    /\ UNCHANGED <<closed, storeVars, driverVars, schemeVars, singletonVars>>
CallGetAuthor ==
    /\ stack = <<>> /\ headers # "none"
    /\ \E id \in AuthorIds : StartFetch("get_author", id)
    /\ UNCHANGED <<storeVars, driverVars, schemeVars, singletonVars>>
CallGetAuthorDocuments ==
    /\ stack = <<>> /\ headers # "none"
    /\ \E id \in AuthorIds : StartFetch("get_author_documents", id)
    /\ UNCHANGED <<storeVars, driverVars, schemeVars, singletonVars>>
CallExit ==
    /\ stack = <<>> /\ headers # "none" /\ ~closed
    /\ ExitClient
    /\ UNCHANGED <<storeVars, driverVars, schemeVars, singletonVars>>

ClientNext ==
    \/ CallEnter
    \/ CallGetAuthor
    \/ CallGetAuthorDocuments
    \/ CallExit
    \/ AuthClaim
    \/ AuthLanding
    \/ FetchRequest
    \/ RetrySleep

(***************************************************************************)
(* The persistence layer: the schema of core/db/models.py (the columns the *)
(* upserts decide on) and PostgreSQL's INSERT ... ON CONFLICT.             *)
(***************************************************************************)
NULL == "NULL"

Fk(col, table, ref) == [col |-> col, table |-> table, ref |-> ref]

\* For each table: its unique constraints (the primary key among them), its NOT
\* NULL columns and its foreign keys.
Schema ==
    [ authors_affiliated_institutions |->
        [unique |-> {{"id"}}, notnull |-> {"id", "name"}, fks |-> {}],
      subject_areas |->
        [unique |-> {{"name"}, {"code"}, {"codename"}}, notnull |-> {"name"}, fks |-> {}],
      authors |->
        [unique |-> {{"id"}},
         notnull |-> {"id", "full_name", "affiliated_institution_id"},
         fks |-> {Fk("affiliated_institution_id", "authors_affiliated_institutions", "id")}],
      authors_name_variants |->
        [unique |-> {{"author_id", "name"}}, notnull |-> {"author_id", "name"},
         fks |-> {Fk("author_id", "authors", "id")}],
      authors_subject_areas |->
        [unique |-> {{"author_id", "subject_area_codename"}},
         notnull |-> {"author_id", "subject_area_codename"},
         fks |-> {Fk("author_id", "authors", "id"),
                  Fk("subject_area_codename", "subject_areas", "codename")}],
      sources |->
        [unique |-> {{"id"}}, notnull |-> {"id", "title"}, fks |-> {}],
      documents |->
        [unique |-> {{"scopus_id"}, {"eid"}}, notnull |-> {"scopus_id", "main_title", "eid"},
         fks |-> {}],
      documents_titles |->
        [unique |-> {{"document_id", "title"}, {"title"}}, notnull |-> {"document_id", "title"},
         fks |-> {Fk("document_id", "documents", "scopus_id")}],
      documents_abstract_texts |->
        [unique |-> {{"document_id", "text"}, {"text"}}, notnull |-> {"document_id", "text"},
         fks |-> {Fk("document_id", "documents", "scopus_id")}],
      documents_sources |->
        [unique |-> {{"document_id"}}, notnull |-> {"document_id", "source_id"},
         fks |-> {Fk("document_id", "documents", "scopus_id"),
                  Fk("source_id", "sources", "id")}],
      documents_sources_relationships |->
        [unique |-> {{"document_id"}}, notnull |-> {"document_id"},
         fks |-> {Fk("document_id", "documents", "scopus_id")}],
      documents_authorship |->
        [unique |-> {{"document_id", "author_id"}}, notnull |-> {"document_id", "author_id"},
         fks |-> {Fk("document_id", "documents", "scopus_id"),
                  Fk("author_id", "authors", "id")}],
      documents_subject_areas |->
        [unique |-> {{"document_id", "subject_area_code"}},
         notnull |-> {"document_id", "subject_area_code"},
         fks |-> {Fk("document_id", "documents", "scopus_id"),
                  Fk("subject_area_code", "subject_areas", "code")}] ]

Tables == DOMAIN Schema
EmptyDb == [t \in Tables |-> {}]

\* Rows r and row agree on the columns cols, none of them NULL.
SameKey(r, row, cols) == \A c \in cols : r[c] = row[c] /\ row[c] # NULL

UniqueViolation(rows, t, row) ==
    \E u \in Schema[t].unique : \E r \in rows : SameKey(r, row, u)

\* A variant of the store without foreign keys.
FkViolation_Never(T, t, row) == FALSE

FkViolation(T, t, row) ==
    \E fk \in Schema[t].fks :
        /\ row[fk.col] # NULL
        /\ ~\E r \in T[fk.table] : r[fk.ref] = row[fk.col]

NotNullViolation(t, row) == \E c \in Schema[t].notnull : row[c] = NULL

StmtOk(T) == [tables |-> T, err |-> "none"]
StmtErr(T, e) == [tables |-> T, err |-> e]

\* One INSERT ... ON CONFLICT (index) DO UPDATE SET set / DO NOTHING statement.
Statement(t, rec, index, mode, set) ==
    [table |-> t, rec |-> rec, index |-> index, mode |-> mode, set |-> set]

\* session.execute of statement st on tables T (mode "plain": an INSERT with no
\* ON CONFLICT clause).
Execute(T, st) ==
    LET t == st.table
        rows == T[t]
        conflicts == IF st.mode = "plain" THEN {}
                     ELSE {r \in rows : SameKey(r, st.rec, st.index)}
    IN IF st.mode = "update" /\ st.set = {}
         THEN StmtErr(T, "ValueError")          \* on_conflict_do_update(set_={})
       ELSE IF st.mode # "plain" /\ st.index \notin Schema[t].unique
         THEN StmtErr(T, "ProgrammingError")    \* no constraint matches ON CONFLICT
       ELSE IF NotNullViolation(t, st.rec)
         THEN StmtErr(T, "IntegrityError")
       ELSE IF conflicts = {}
         THEN IF UniqueViolation(rows, t, st.rec) \/ FkViolation(T, t, st.rec)
                THEN StmtErr(T, "IntegrityError")
              ELSE StmtOk([T EXCEPT ![t] = rows \cup {st.rec}])
       ELSE IF st.mode = "nothing"
         THEN StmtOk(T)
       ELSE LET old == CHOOSE r \in conflicts : TRUE
                new == [c \in DOMAIN old |-> IF c \in st.set THEN st.rec[c] ELSE old[c]]
                others == rows \ {old}
            IN IF UniqueViolation(others, t, new) \/ FkViolation(T, t, new)
                 THEN StmtErr(T, "IntegrityError")
               ELSE StmtOk([T EXCEPT ![t] = others \cup {new}])

\* The statements of stmts from the i-th on, in order, up to the first failure:
\* the tables reached, the error met and the statements that succeeded.
RECURSIVE RunFrom(_, _, _)
RunFrom(T, stmts, i) ==
    IF i > Len(stmts) THEN [tables |-> T, err |-> "none", done |-> Len(stmts)]
    ELSE LET r == Execute(T, stmts[i]) IN
         IF r.err # "none" THEN [tables |-> r.tables, err |-> r.err, done |-> i - 1]
         ELSE RunFrom(r.tables, stmts, i + 1)

Run(T, stmts) == RunFrom(T, stmts, 1)

\* A variant of insert_record that sends a plain INSERT, with no ON CONFLICT
\* clause: a row that meets an existing key fails.
insert_record_plain(t, rec, index, on_conflict_do_update) ==
    Statement(t, rec, index, "plain", {})

\* connector.py:43-59
insert_record(t, rec, index, on_conflict_do_update) ==
    IF on_conflict_do_update
    THEN Statement(t, rec, index, "update", DOMAIN rec \ index)
    ELSE Statement(t, rec, index, "nothing", {})

SeqMap(f(_), sq) == [i \in 1..Len(sq) |-> f(sq[i])]

\* connector.py:61-63
insert_affiliated_institution(inst) ==
    << insert_record("authors_affiliated_institutions", inst, {"id"}, TRUE) >>

\* A variant that leaves an existing row alone (ON CONFLICT DO NOTHING).
insert_subject_area_do_nothing(sa) ==
    << Statement("subject_areas", sa, {"name"}, "nothing", {}) >>

\* A variant that writes both code and codename of the payload over the row.
insert_subject_area_overwrite(sa) ==
    << Statement("subject_areas", sa, {"name"}, "update", {"code", "codename"}) >>

\* connector.py:120-134
insert_subject_area(sa) ==
    LET update_values ==
            IF sa.code # NULL /\ sa.codename = NULL THEN {"code"}
            ELSE IF sa.code = NULL /\ sa.codename # NULL THEN {"codename"}
            ELSE {}
    IN << Statement("subject_areas", sa, {"name"}, "update", update_values) >>

\* schemes.py:269-276
dump_name_variants(a) ==
    SeqMap(LAMBDA name : [author_id |-> a.id, name |-> name], a.name_variants)
author_dump_subject_areas(a) ==
    SeqMap(LAMBDA sa : [author_id |-> a.id, subject_area_codename |-> sa.codename],
           a.subject_areas)

\* connector.py:65-77
insert_author(a) ==
    << insert_record("authors",
                     [id |-> a.id, full_name |-> a.full_name,
                      affiliated_institution_id |-> a.affiliated_institution_id],
                     {"id"}, TRUE) >>
    \o SeqMap(LAMBDA row : insert_record("authors_name_variants", row,
                                         {"author_id", "name"}, FALSE),
              dump_name_variants(a))
    \o SeqMap(LAMBDA row : insert_record("authors_subject_areas", row,
                                         {"author_id", "subject_area_codename"}, FALSE),
              author_dump_subject_areas(a))

\* connector.py:79-81
insert_source(src) == << insert_record("sources", src, {"id"}, TRUE) >>

\* schemes.py:172-199
dump_titles(d) == SeqMap(LAMBDA t : [document_id |-> d.scopus_id, title |-> t], d.titles)
dump_abstract_texts(d) ==
    SeqMap(LAMBDA t : [document_id |-> d.scopus_id, text |-> t], d.abstract_texts)
document_dump_subject_areas(d) ==
    SeqMap(LAMBDA sa : [document_id |-> d.scopus_id, subject_area_code |-> sa.code],
           d.subject_areas)
dump_source_relationship(d) == [document_id |-> d.scopus_id, issue |-> d.issue]
dump_source(d) == [document_id |-> d.scopus_id, source_id |-> d.source.id]
dump_authors(d) ==
    SeqMap(LAMBDA a : [document_id |-> d.scopus_id, author_id |-> a], d.authors_ids)
dump(d) == [scopus_id |-> d.scopus_id, main_title |-> d.main_title, eid |-> d.eid]

\* A variant of the source-link upsert with refresh semantics on document_id.
insert_document_source_refresh(d) ==
    insert_record("documents_sources", dump_source(d), {"document_id"}, TRUE)

\* connector.py:97-99
insert_document_source(d) ==
    insert_record("documents_sources", dump_source(d), {"document_id", "source_id"}, FALSE)

\* connector.py:101-108; `issue` stands for the seven optional columns, all of
\* which the call lists as conflict target beside document_id.
insert_document_source_relationship(d) ==
    insert_record("documents_sources_relationships", dump_source_relationship(d),
                  {"document_id", "issue"}, FALSE)

\* connector.py:83-118
insert_document(d) ==
    << insert_record("documents", dump(d), {"scopus_id"}, TRUE) >>
    \o SeqMap(LAMBDA row : insert_record("documents_titles", row,
                                         {"document_id", "title"}, FALSE),
              dump_titles(d))
    \o SeqMap(LAMBDA row : insert_record("documents_abstract_texts", row,
                                         {"document_id", "text"}, FALSE),
              dump_abstract_texts(d))
    \o << insert_document_source(d), insert_document_source_relationship(d) >>
    \o SeqMap(LAMBDA row : insert_record("documents_authorship", row,
                                         {"document_id", "author_id"}, FALSE),
              dump_authors(d))
    \o SeqMap(LAMBDA row : insert_record("documents_subject_areas", row,
                                         {"document_id", "subject_area_code"}, FALSE),
              document_dump_subject_areas(d))

\* connector.py:40-41
record_exists(T, t, col, value) == \E r \in T[t] : r[col] = value

(***************************************************************************)
(* The connector under an arbitrary caller: one session, any sequence of   *)
(* its operations on a few entities, commits and rollbacks.                *)
(***************************************************************************)
StoreInstitutions == {[id |-> "i1", name |-> n] : n \in {"n1", "n2"}}

CodeOnly == [name |-> "Computer Science", code |-> "17", codename |-> NULL]
CodenameOnly == [name |-> "Computer Science", code |-> NULL, codename |-> "COMP"]
Unclassified == [name |-> "Computer Science", code |-> NULL, codename |-> NULL]
CodeAndCodename == [name |-> "Computer Science", code |-> "17", codename |-> "COMP"]
StoreSubjectAreas == {CodeOnly, CodenameOnly, Unclassified, CodeAndCodename}

StoreAuthors ==
    [id : {"a1"}, full_name : {"F1", "F2"}, affiliated_institution_id : {"i1"},
     name_variants : {<<"v1">>, <<"v1", "v2">>},
     subject_areas : {<<>>, <<CodenameOnly>>}]

StoreSources ==
    {[id |-> "s1", title |-> "t1"], [id |-> "s1", title |-> "t2"], [id |-> "s2", title |-> "t1"]}

StoreDocuments ==
    { [scopus_id |-> ids[1], main_title |-> "T1", eid |-> ids[2],
       titles |-> ts, abstract_texts |-> as, issue |-> NULL,
       source |-> src, authors_ids |-> <<"a1">>, subject_areas |-> <<CodeOnly>>] :
      ids \in {<<"d1", "e1">>, <<"d2", "e2">>},
      ts \in {<<"T1">>, <<"T1", "T1">>},
      as \in {<<>>, <<"A1">>},
      src \in {[id |-> "s1", title |-> "t1"], [id |-> "s2", title |-> "t1"]} }

NoOp == [kind |-> "none", ent |-> "none", err |-> "none", rep |-> FALSE, before |-> EmptyDb]

\* Errors raised before a statement reaches the server leave the transaction usable.
AbortsTransaction(err) == err \notin {"none", "ValueError"}

\* One connector operation issuing stmts in the open session.
StoreOp(kind, ent, stmts) ==
    LET r == IF txFailed THEN [tables |-> session, err |-> "InternalError", done |-> 0]
             ELSE Run(session, stmts)
        rep == last.kind = kind /\ last.ent = ent /\ last.err = "none"
    IN /\ dbOps' = dbOps + 1
       /\ session' = r.tables
       /\ txFailed' = (txFailed \/ AbortsTransaction(r.err))
       /\ last' = [kind |-> kind, ent |-> ent, err |-> r.err, rep |-> rep,
                   before |-> IF rep THEN session ELSE EmptyDb]
       /\ UNCHANGED <<db, clientVars, driverVars, schemeVars, singletonVars>>

StoreInsertAffiliatedInstitution ==
    /\ dbOps < MaxOps
    /\ \E e \in StoreInstitutions : StoreOp("institution", e, insert_affiliated_institution(e))
StoreInsertSubjectArea ==
    /\ dbOps < MaxOps
    /\ \E e \in StoreSubjectAreas : StoreOp("subject_area", e, insert_subject_area(e))
StoreInsertAuthor ==
    /\ dbOps < MaxOps
    /\ \E e \in StoreAuthors : StoreOp("author", e, insert_author(e))
StoreInsertSource ==
    /\ dbOps < MaxOps
    /\ \E e \in StoreSources : StoreOp("source", e, insert_source(e))
StoreInsertDocument ==
    /\ dbOps < MaxOps
    /\ \E e \in StoreDocuments : StoreOp("document", e, insert_document(e))

\* session.commit()
Commit(committed, work) == work
\* session.rollback(), and session.close() with a transaction open
Rollback(committed, work) == committed

StoreCommit ==
    /\ ~txFailed /\ session # db
    /\ db' = Commit(db, session)
    /\ UNCHANGED <<session, txFailed, dbOps, last, clientVars, driverVars, schemeVars, singletonVars>>

StoreRollback ==
    /\ txFailed \/ session # db
    /\ session' = Rollback(db, session)
    /\ txFailed' = FALSE
    /\ last' = NoOp
    /\ UNCHANGED <<db, dbOps, clientVars, driverVars, schemeVars, singletonVars>>

StoreInit ==
    /\ db = EmptyDb
    /\ session = EmptyDb
    /\ txFailed = FALSE
    /\ dbOps = 0
    /\ last = NoOp

\* A database that holds rows when the program starts (connector.py:27,
\* create_all, keeps the tables and rows it finds): a document d1 with its
\* title, abstract text, source and subject area.
PopulatedDb ==
    [EmptyDb EXCEPT
        !.sources = {[id |-> "s1", title |-> "t1"]},
        !.subject_areas = {CodeOnly},
        !.documents = {[scopus_id |-> "d1", main_title |-> "T1", eid |-> "e1"]},
        !.documents_titles = {[document_id |-> "d1", title |-> "T1"]},
        !.documents_abstract_texts = {[document_id |-> "d1", text |-> "A1"]},
        !.documents_sources = {[document_id |-> "d1", source_id |-> "s1"]},
        !.documents_subject_areas = {[document_id |-> "d1", subject_area_code |-> "17"]}]

StorePopulated ==
    /\ db = PopulatedDb
    /\ session = PopulatedDb
    /\ txFailed = FALSE
    /\ dbOps = 0
    /\ last = NoOp

StoreNext ==
    \/ StoreInsertAffiliatedInstitution
    \/ StoreInsertSubjectArea
    \/ StoreInsertAuthor
    \/ StoreInsertSource
    \/ StoreInsertDocument
    \/ StoreCommit
    \/ StoreRollback

(***************************************************************************)
(* The validation layer (core/schemes.py). A raw record is what the API's  *)
(* JSON holds; a key that is absent, null or '' is NULL.                   *)
(***************************************************************************)
Range(sq) == {sq[i] : i \in 1..Len(sq)}

\* The orders in which a Python set of these elements can be listed.
Orderings(S) == {sq \in [1..Cardinality(S) -> S] : Range(sq) = S}

\* str.isdecimal() on the codes the API uses.
IsDecimal(s) == s \in {"0", "17", "18"}

\* A variant of the before-validator that never moves the code.
prevalidate_subject_area_data_keep_code(raw) ==
    [name |-> raw.name, code |-> raw.code, codename |-> NULL]

\* schemes.py:24-34; an integer code is written as its decimal string.
prevalidate_subject_area_data(raw) ==
    IF raw.code # NULL /\ ~IsDecimal(raw.code)
    THEN [name |-> raw.name, code |-> NULL, codename |-> raw.code]
    ELSE [name |-> raw.name, code |-> raw.code, codename |-> NULL]

\* schemes.py:19-22: name is required.
SubjectAreaValid(raw) == raw.name # NULL

\* get_author() returned {} (a soft-empty answer).
EmptyAuthorJson ==
    [authorId |-> NULL, eid |-> NULL, full |-> NULL, nameVariants |-> <<>>,
     inst |-> [id |-> NULL, name |-> NULL], areas |-> <<>>]

\* schemes.py:225-267: the required fields of Author and of its institution.
AuthorValid(raw) ==
    /\ raw.authorId # NULL /\ raw.eid # NULL /\ raw.full # NULL
    /\ raw.inst.id # NULL /\ raw.inst.name # NULL
    /\ \A i \in 1..Len(raw.areas) : SubjectAreaValid(raw.areas[i])

\* Author.model_validate on a valid record.
AuthorModel(raw) ==
    [id |-> raw.authorId, full_name |-> raw.full,
     affiliated_institution_id |-> raw.inst.id,
     affiliated_institution |-> raw.inst,
     name_variants |-> raw.nameVariants,
     subject_areas |-> SeqMap(prevalidate_subject_area_data, raw.areas)]

\* schemes.py:141-142: a title that is truthy and a str.
is_valid_title(t) == t # NULL /\ t # ""

\* schemes.py:140-158: the valid titles among `titles` and `title`.
ValidTitles(raw) == {t \in Range(raw.titles) \cup {raw.title} : is_valid_title(t)}

\* Document.model_validate: how it ends. `raise ValidationError('No document
\* titles')` cannot build the exception (pydantic_core's ValidationError has no
\* constructor), so a TypeError leaves the before-validator; the required
\* fields are looked at after it. main_title has no alias: the key read is
\* 'main_title'.
DocumentCheck(raw) ==
    IF ValidTitles(raw) = {} THEN "TypeError"
    ELSE IF \/ raw.scopusId = NULL \/ raw.main_title = NULL \/ raw.eid = NULL
            \/ raw.pubYear <= 0
            \/ raw.source.id = NULL \/ raw.source.title = NULL
            \/ \E i \in 1..Len(raw.subjectAreas) : ~SubjectAreaValid(raw.subjectAreas[i])
         THEN "ValidationError"
    ELSE "none"

\* Document.model_validate on a valid record, ts being the order the set of
\* titles is listed in.
DocumentModel(raw, ts) ==
    [scopus_id |-> raw.scopusId, main_title |-> raw.main_title, eid |-> raw.eid,
     titles |-> ts, abstract_texts |-> raw.abstractText, issue |-> raw.issue,
     source |-> raw.source, authors_ids |-> raw.authors,
     subject_areas |-> SeqMap(prevalidate_subject_area_data, raw.subjectAreas)]

(***************************************************************************)
(* The validation layer under an arbitrary caller: one raw record, with    *)
(* its strings as the JSON holds them ('' and surrounding whitespace told  *)
(* apart), is validated.                                                   *)
(***************************************************************************)
MaxTitles == 2

\* The values a title can have: absent or null, empty, whitespace only, text,
\* text with trailing whitespace.
TitleValues == {NULL, "", " ", "A", "A ", "B"}

\* schemes.py:9, ConfigDict(str_strip_whitespace=True): str.strip() on a str
\* value of a validated field, list items included.
str_strip_whitespace(s) ==
    CASE s = " " -> ""
      [] s = "A " -> "A"
      [] OTHER -> s

\* schemes.py:11-16
empty_value_to_none(v) == IF v = "" THEN NULL ELSE v

TitleLists == UNION {[1..n -> TitleValues] : n \in 0..MaxTitles}

\* The title keys of a raw document; `titles` is a list (a missing or null one
\* is read as []) unless titles_is_list is FALSE (a str, say).
TitleInputs ==
    [kind : {"document"}, title : TitleValues, titles_is_list : {TRUE}, titles : TitleLists]
        \cup [kind : {"document"}, title : TitleValues, titles_is_list : {FALSE},
              titles : {<<>>}]

\* schemes.py:140-158 followed by the validation of the field `titles`
\* (List[str]): the lists the document can end up with, or the exception.
_validate_titles(raw) ==
    LET main_title == IF raw.title = "" THEN NULL ELSE raw.title
        valid == IF raw.titles_is_list
                   THEN {t \in Range(raw.titles) \cup {main_title} : is_valid_title(t)}
                 ELSE {t \in {main_title} : is_valid_title(t)}
    IN IF valid = {}
         THEN {[err |-> "TypeError", titles |-> <<>>]}
       ELSE {[err |-> "none", titles |-> SeqMap(str_strip_whitespace, order)] :
             order \in Orderings(valid)}

SubjectAreaCodes == {NULL, "", "0", "17", "COMP", "17a"}

SubjectAreaInputs ==
    [kind : {"subject_area"}, name : {NULL, "Computer Science"}, code : SubjectAreaCodes]

\* schemes.py:19-34: SubjectArea.model_validate. name is a required str, code
\* an optional positive int, codename an optional str.
SubjectAreaModel(raw) ==
    LET data == prevalidate_subject_area_data(raw) IN
    IF data.name = NULL \/ (data.code # NULL /\ ~IsDecimal(data.code)) \/ data.code = "0"
      THEN [err |-> "ValidationError", code |-> NULL, codename |-> NULL]
    ELSE [err |-> "none", code |-> data.code,
          codename |-> empty_value_to_none(data.codename)]

\* What the API can answer as an author's documents.
RawDocument(id, year, title, titles, main_title) ==
    [scopusId |-> id, pubYear |-> year, title |-> title, titles |-> titles,
     main_title |-> main_title, eid |-> "e1", authors |-> <<"a1", "a2">>,
     abstractText |-> <<>>, issue |-> NULL,
     source |-> [id |-> "s1", title |-> "t1"],
     subjectAreas |-> <<[code |-> "17", name |-> "Computer Science"]>>]

\* Raw document payloads as the caller's JSON holds them: each required key
\* present or absent (NULL), with or without a key 'main_title'.
DocumentInputs ==
    [kind : {"raw_document"},
     raw : {RawDocument(id, year, title, titles, main_title) :
              id \in {NULL, "d1"}, year \in {0, 2024}, title \in {NULL, "", "T1"},
              titles \in {<<>>, <<"T1">>, <<"T2">>},
              main_title \in {NULL, "T1", "T2"}}]

Pending == [err |-> "pending"]

ValidateDocumentTitles ==
    /\ given.kind = "document" /\ result = Pending
    /\ result' \in _validate_titles(given)
    /\ UNCHANGED <<given, clientVars, storeVars, driverVars, singletonVars>>

ValidateSubjectArea ==
    /\ given.kind = "subject_area" /\ result = Pending
    /\ result' = SubjectAreaModel(given)
    /\ UNCHANGED <<given, clientVars, storeVars, driverVars, singletonVars>>

\* schemes.py:74-158: Document.model_validate(given.raw)
ValidateDocument ==
    /\ given.kind = "raw_document" /\ result = Pending
    /\ IF DocumentCheck(given.raw) # "none"
         THEN result' = [err |-> DocumentCheck(given.raw)]
       ELSE \E ts \in Orderings(ValidTitles(given.raw)) :
              result' = [err |-> "none", document |-> DocumentModel(given.raw, ts)]
    /\ UNCHANGED <<given, clientVars, storeVars, driverVars, singletonVars>>

SchemesIdle ==
    /\ given = [kind |-> "none"]
    /\ result = Pending

SchemesInit ==
    /\ given \in TitleInputs \cup SubjectAreaInputs \cup DocumentInputs
    /\ result = Pending

SchemesNext ==
    \/ ValidateDocumentTitles
    \/ ValidateSubjectArea
    \/ ValidateDocument

(***************************************************************************)
(* The client's construction (scraper.py:20-48): the shared instance and   *)
(* the proxy configuration its requests go through, under a caller that    *)
(* constructs it with any configuration any number of times.               *)
(***************************************************************************)
Schemes == {"http", "https"}

\* A proxies dict: the proxy URL of each scheme, "none" where it has no key.
ProxyConfigs == [Schemes -> {"none", "p1", "p2"}]
NoProxies == [s \in Schemes |-> "none"]

\* dict.update
Update(d, u) == [s \in Schemes |-> IF u[s] # "none" THEN u[s] ELSE d[s]]

NoInstance == [made |-> FALSE, proxies |-> NoProxies]

\* A variant of __new__ that initialises the instance on every construction.
__new___reinit(inst, proxies) == [made |-> TRUE, proxies |-> proxies]

\* scraper.py:23-31: __new__ and _init (`proxies or {}`).
__new__(inst, proxies) ==
    IF ~inst.made THEN [made |-> TRUE, proxies |-> proxies] ELSE inst

\* ScopusClient(proxies)
Construct ==
    /\ \E proxies \in ProxyConfigs :
         /\ instance' = __new__(instance, proxies)
         /\ asked' = proxies
         /\ sessionProxies' = IF instance.made THEN sessionProxies ELSE NoProxies
    /\ UNCHANGED <<sent, clientVars, storeVars, driverVars, schemeVars>>

\* __enter__: _init_client updates the session's proxies (scraper.py:45); the
\* handshake's requests pass proxies=self._session.proxies (scraper.py:91, 94).
EnterWithProxies ==
    /\ instance.made
    /\ sessionProxies' = Update(sessionProxies, instance.proxies)
    /\ sent' = <<[by |-> "_scopus_auth", proxies |-> sessionProxies']>>
    /\ UNCHANGED <<instance, asked, clientVars, storeVars, driverVars, schemeVars>>

\* get_author / get_author_documents inside the `with` block: the request
\* passes proxies=self._session.proxies (scraper.py:106, 137).
FetchWithProxies ==
    /\ instance.made /\ sent # <<>>
    /\ \E fn \in FetchFns : sent' = <<[by |-> fn, proxies |-> sessionProxies]>>
    /\ UNCHANGED <<instance, sessionProxies, asked, clientVars, storeVars, driverVars,
                   schemeVars>>

\* The driver constructs the client with main.py's _proxies only; the other
\* specifications leave the construction aside.
SingletonIdle ==
    /\ instance = NoInstance
    /\ sessionProxies = NoProxies
    /\ asked = NoProxies
    /\ sent = <<>>

SingletonNext ==
    \/ Construct
    \/ EnterWithProxies
    \/ FetchWithProxies

(***************************************************************************)
(* The batch driver (main.py).                                             *)
(***************************************************************************)
\* main.py:15
OMSTU_AFF_INST_IDS ==
    {"100459484", "60075514", "110906095", "100339616", "101349208", "100423925"}
\* main.py:16-22
PUB_YEAR == {2024}

\* storage/scopus_authors.csv: the seed author ids, in file order.
Seeds == <<"a1", "a2">>

\* What the API can answer for an author id.
RawAuthor(id, eid, instId) ==
    [authorId |-> id, eid |-> eid, full |-> "F1", nameVariants |-> <<"v1">>,
     inst |-> [id |-> instId, name |-> "n1"],
     areas |-> <<[code |-> "COMP", name |-> "Computer Science"]>>]

AuthorPayloads(id) ==
    { RawAuthor(id, "e", "60075514"),       \* an author of the institution
      RawAuthor(id, "e", "60104566"),       \* an author of another institution
      RawAuthor(id, NULL, "60075514"),      \* a record without eid
      [RawAuthor(id, "e", "60075514")       \* a name variant that is null
           EXCEPT !.nameVariants = <<NULL>>] }


DocComplete == RawDocument("d1", 2024, "T1", <<"T1">>, "T1")
DocAsServed == RawDocument("d1", 2024, "T1", <<"T1">>, NULL)
DocUntitled == RawDocument("d1", 2024, NULL, <<>>, "T1")
DocOtherYear == RawDocument("d1", 2019, "T1", <<"T1">>, "T1")
DocNoYear == RawDocument("d1", 0, "T1", <<"T1">>, "T1")

DocLists ==
    { <<>>, <<DocComplete>>, <<DocAsServed>>, <<DocUntitled>>, <<DocOtherYear>>,
      <<DocNoYear>>, <<DocAsServed, DocComplete>>, <<DocComplete, DocAsServed>> }

SQLAlchemyErrors == {"IntegrityError", "ProgrammingError", "InternalError"}

NoUnit == [kind |-> "none", id |-> "none", err |-> "none", done |-> 0, stmts |-> <<>>]

UnitResult(kind, id, T, err, done, stmts, raised) ==
    [db |-> T, raised |-> raised,
     unit |-> [kind |-> kind, id |-> id, err |-> err, done |-> done, stmts |-> stmts]]

\* A variant of the write path that commits whatever the session holds when a
\* statement fails.
Settle_CommitOnFailure(kind, id, T, stmts) ==
    LET r == Run(T, stmts) IN
    UnitResult(kind, id, Commit(T, r.tables), r.err, r.done, stmts,
               r.err \notin SQLAlchemyErrors \cup {"none"})

\* A variant of the write path without the `except SQLAlchemyError` clause: the
\* error leaves the unit.
Settle_NoExcept(kind, id, T, stmts) ==
    LET r == Run(T, stmts) IN
    IF r.err = "none"
      THEN UnitResult(kind, id, Commit(T, r.tables), "none", r.done, stmts, FALSE)
    ELSE UnitResult(kind, id, Rollback(T, r.tables), r.err, r.done, stmts, TRUE)

\* The statements of one unit in one session on the committed tables T:
\* commit after the last one; rollback in `except SQLAlchemyError`; any other
\* exception leaves through DatabaseConnector.__exit__, whose session.close()
\* rolls back.
Settle(kind, id, T, stmts) ==
    LET r == Run(T, stmts) IN
    IF r.err = "none"
      THEN UnitResult(kind, id, Commit(T, r.tables), "none", r.done, stmts, FALSE)
    ELSE IF r.err \in SQLAlchemyErrors
      THEN UnitResult(kind, id, Rollback(T, r.tables), r.err, r.done, stmts, FALSE)
    ELSE UnitResult(kind, id, Rollback(T, r.tables), r.err, r.done, stmts, TRUE)

\* A variant that writes the author and its child rows first.
AuthorStatements_AuthorFirst(a) ==
    insert_author(a)
    \o insert_affiliated_institution(a.affiliated_institution)
    \o SeqMap(LAMBDA sa : insert_subject_area(sa)[1], a.subject_areas)

\* main.py:90-96
AuthorStatements(a) ==
    insert_affiliated_institution(a.affiliated_institution)
    \o SeqMap(LAMBDA sa : insert_subject_area(sa)[1], a.subject_areas)
    \o insert_author(a)

\* A variant of _insert_author without the institution test.
_insert_author_unfiltered(T, raw) ==
    IF ~AuthorValid(raw)
      THEN UnitResult("author", raw.authorId, T, "ValidationError", 0, <<>>, FALSE)
    ELSE Settle("author", raw.authorId, T, AuthorStatements(AuthorModel(raw)))

\* A variant of _insert_author without the `except ValidationError` clause.
_insert_author_uncaught(T, raw) ==
    IF ~AuthorValid(raw)
      THEN UnitResult("author", raw.authorId, T, "ValidationError", 0, <<>>, TRUE)
    ELSE IF AuthorModel(raw).affiliated_institution_id \notin OMSTU_AFF_INST_IDS
      THEN UnitResult("author", raw.authorId, T, "filtered", 0, <<>>, FALSE)
    ELSE Settle("author", raw.authorId, T, AuthorStatements(AuthorModel(raw)))

\* main.py:83-104
_insert_author(T, raw) ==
    IF ~AuthorValid(raw)
      THEN UnitResult("author", raw.authorId, T, "ValidationError", 0, <<>>, FALSE)
    ELSE IF AuthorModel(raw).affiliated_institution_id \notin OMSTU_AFF_INST_IDS
      THEN UnitResult("author", raw.authorId, T, "filtered", 0, <<>>, FALSE)
    ELSE Settle("author", raw.authorId, T, AuthorStatements(AuthorModel(raw)))

\* main.py:112-118
DocumentStatements(d) ==
    insert_source(d.source)
    \o SeqMap(LAMBDA sa : insert_subject_area(sa)[1], d.subject_areas)
    \o insert_document(d)

\* main.py:107-125
_insert_document(T, raw, ts) ==
    IF DocumentCheck(raw) = "TypeError"
      THEN UnitResult("document", raw.scopusId, T, "TypeError", 0, <<>>, TRUE)
    ELSE IF DocumentCheck(raw) = "ValidationError"
      THEN UnitResult("document", raw.scopusId, T, "ValidationError", 0, <<>>, FALSE)
    ELSE Settle("document", raw.scopusId, T, DocumentStatements(DocumentModel(raw, ts)))

\* main.py:60-64: `a or b in c and not d` is `a or ((b in c) and (not d))`.
KeepDocument(T, d) ==
    \/ d.pubYear # 0
    \/ (0 \in PUB_YEAR /\ ~record_exists(T, "documents", "scopus_id", d.scopusId))

\* main.py:68-75
DocumentsAuthorsIds(seed, docs) ==
    UNION {Range(docs[i].authors) : i \in 1..Len(docs)} \cup {seed}

\* A variant of the author list that asks for every id.
AuthorsToFetch_All(T, ids) == ids

\* main.py:79-80: the ids of the list that have no row in authors.
AuthorsToFetch(T, ids) ==
    SelectSeq(ids, LAMBDA id : ~record_exists(T, "authors", "id", id))

\* Where main() goes once the authors of a seed are fetched, with as the authors
\* and ds the documents still to insert.
Onward(as, ds) ==
    IF as # <<>> THEN "insert_authors"
    ELSE IF ds # <<>> THEN "insert_documents"
    ELSE "seed"

Advance(as, ds) ==
    /\ pc' = Onward(as, ds)
    /\ seedIdx' = IF Onward(as, ds) = "seed" THEN seedIdx + 1 ELSE seedIdx

ClientIdle == stack = <<>> /\ ret.kind = "return"

\* main.py:128-130, 57: the loop head; _get_documents enters the client.
MainLoop ==
    /\ pc = "seed"
    /\ IF seedIdx > Len(Seeds)
         THEN /\ pc' = "done"
              /\ UNCHANGED clientVars
         ELSE /\ pc' = "get_documents"
              /\ \E hd \in Identities : InitClient(hd)
              /\ UNCHANGED closed
    /\ UNCHANGED <<seedIdx, documents, todo, authors, crash, unit, storeVars, schemeVars, singletonVars>>

\* main.py:59: the handshake is done, the documents are asked for.
GetDocumentsCall ==
    /\ pc = "get_documents" /\ ClientIdle /\ ret.val = "None"
    /\ StartFetch("get_author_documents", Seeds[seedIdx])
    /\ UNCHANGED closed
    /\ UNCHANGED <<storeVars, driverVars, schemeVars, singletonVars>>

\* main.py:60-64, 68-75: the answer is filtered, both context managers exit,
\* and the ids of the authors to fetch are listed.
GetDocumentsReturn ==
    /\ pc = "get_documents" /\ ClientIdle /\ ret.val # "None"
    /\ \E items \in (IF ret.val = "empty" THEN {<<>>} ELSE DocLists) :
         LET docs == SelectSeq(items, LAMBDA d : KeepDocument(db, d)) IN
         /\ documents' = docs
         /\ \E order \in Orderings(DocumentsAuthorsIds(Seeds[seedIdx], docs)) : todo' = order
    /\ authors' = <<>>
    /\ pc' = "get_authors_enter"
    /\ ExitClient
    /\ UNCHANGED <<seedIdx, crash, unit, storeVars, schemeVars, singletonVars>>

\* main.py:77: _get_documents_authors enters the client.
GetAuthorsEnter ==
    /\ pc = "get_authors_enter"
    /\ \E hd \in Identities : InitClient(hd)
    /\ pc' = "get_authors"
    /\ UNCHANGED <<closed, seedIdx, documents, todo, authors, crash, unit, storeVars, schemeVars, singletonVars>>

\* main.py:79-80: the next author id without a row is fetched; with none left
\* the context managers exit.
GetAuthorsNext ==
    /\ pc = "get_authors" /\ ClientIdle
    /\ LET rest == AuthorsToFetch(db, todo) IN
       IF rest = <<>>
         THEN /\ ExitClient
              /\ todo' = <<>>
              /\ Advance(authors, documents)
         ELSE /\ StartFetch("get_author", Head(rest))
              /\ todo' = rest
              /\ pc' = "get_author"
              /\ UNCHANGED <<closed, seedIdx>>
    /\ UNCHANGED <<documents, authors, crash, unit, storeVars, schemeVars, singletonVars>>

\* main.py:79: get_author returned.
GetAuthorReturn ==
    /\ pc = "get_author" /\ ClientIdle
    /\ \E raw \in (IF ret.val = "empty" THEN {EmptyAuthorJson}
                   ELSE AuthorPayloads(Head(todo))) :
         authors' = Append(authors, raw)
    /\ todo' = Tail(todo)
    /\ pc' = "get_authors"
    /\ UNCHANGED <<seedIdx, documents, crash, unit, clientVars, storeVars, schemeVars, singletonVars>>

\* An exception left a client call: it passes both `with` blocks and main().
MainRaise ==
    /\ pc \in {"get_documents", "get_authors", "get_author"}
    /\ stack = <<>> /\ ret.kind = "raise"
    /\ pc' = "raised"
    /\ crash' = ret.val
    /\ closed' = TRUE
    /\ UNCHANGED <<stack, cookies, headers, resp, ret, profiles, faults, faultLimit>>
    /\ UNCHANGED <<seedIdx, documents, todo, authors, unit, storeVars, schemeVars, singletonVars>>

\* main.py:133-134
InsertAuthor ==
    /\ pc = "insert_authors"
    /\ LET u == _insert_author(db, Head(authors)) IN
       /\ db' = u.db
       /\ unit' = u.unit
       /\ authors' = Tail(authors)
       /\ IF u.raised
            THEN pc' = "raised" /\ crash' = u.unit.err /\ UNCHANGED seedIdx
            ELSE Advance(Tail(authors), documents) /\ UNCHANGED crash
    /\ UNCHANGED <<documents, todo, session, txFailed, dbOps, last, clientVars, schemeVars, singletonVars>>

\* main.py:136-137
InsertDocument ==
    /\ pc = "insert_documents"
    /\ \E ts \in Orderings(ValidTitles(Head(documents))) :
         LET u == _insert_document(db, Head(documents), ts) IN
         /\ db' = u.db
         /\ unit' = u.unit
         /\ documents' = Tail(documents)
         /\ IF u.raised
              THEN pc' = "raised" /\ crash' = u.unit.err /\ UNCHANGED seedIdx
              ELSE Advance(<<>>, Tail(documents)) /\ UNCHANGED crash
    /\ UNCHANGED <<authors, todo, session, txFailed, dbOps, last, clientVars, schemeVars, singletonVars>>

DriverIdle ==
    /\ pc = "idle"
    /\ seedIdx = 0
    /\ documents = <<>>
    /\ todo = <<>>
    /\ authors = <<>>
    /\ crash = "none"
    /\ unit = NoUnit

DriverInit ==
    /\ pc = "seed"
    /\ seedIdx = 1
    /\ documents = <<>>
    /\ todo = <<>>
    /\ authors = <<>>
    /\ crash = "none"
    /\ unit = NoUnit

Next ==
    \/ MainLoop
    \/ GetDocumentsCall
    \/ GetDocumentsReturn
    \/ GetAuthorsEnter
    \/ GetAuthorsNext
    \/ GetAuthorReturn
    \/ MainRaise
    \/ InsertAuthor
    \/ InsertDocument
    \/ AuthClaim
    \/ AuthLanding
    \/ FetchRequest
    \/ RetrySleep

(***************************************************************************)
(* The specifications: the whole program, and the client and the store     *)
(* each under an arbitrary caller.                                         *)
(***************************************************************************)
Init == ClientInit(MaxDriverFaults) /\ StoreInit /\ DriverInit /\ SchemesIdle /\ SingletonIdle
Spec == Init /\ [][Next]_vars

ClientOnlyInit == ClientInit(MaxFaults) /\ StoreInit /\ DriverIdle /\ SchemesIdle /\ SingletonIdle
SpecClient == ClientOnlyInit /\ [][ClientNext]_vars

StoreOnlyInit == ClientInit(0) /\ StoreInit /\ DriverIdle /\ SchemesIdle /\ SingletonIdle
SpecStore == StoreOnlyInit /\ [][StoreNext]_vars

\* The program and the connector started on a database that holds rows.
ResumedInit == ClientInit(MaxDriverFaults) /\ StorePopulated /\ DriverInit /\ SchemesIdle /\ SingletonIdle
SpecResumed == ResumedInit /\ [][Next]_vars

StoreResumedInit == ClientInit(0) /\ StorePopulated /\ DriverIdle /\ SchemesIdle /\ SingletonIdle
SpecStoreResumed == StoreResumedInit /\ [][StoreNext]_vars

\* The validation layer alone.
SchemesOnlyInit == ClientInit(0) /\ StoreInit /\ DriverIdle /\ SchemesInit /\ SingletonIdle
SpecSchemes == SchemesOnlyInit /\ [][SchemesNext]_vars

\* The client's construction alone.
SingletonOnlyInit ==
    ClientInit(0) /\ StoreInit /\ DriverIdle /\ SchemesIdle /\ SingletonIdle
SpecSingleton == SingletonOnlyInit /\ [][SingletonNext]_vars

(***************************************************************************)
(* Properties of the fetch client.                                         *)
(***************************************************************************)
Frames == {stack[i] : i \in 1..Len(stack)}
ProxyErrors == {"ProxyError", "ConnectTimeout"}

AtFetchRequest == stack # <<>> /\ Top.fn \in FetchFns /\ Top.pc = "request"
AtAuthRequest == stack # <<>> /\ Top.fn = "_scopus_auth" /\ Top.pc \in {"claim", "landing"}

\* A session reset starts in this step for the failure e of the top frame: the
\* cookie jar is emptied, a new identity profile is generated, and the handshake
\* is entered from the except clause (or the interpreter's stack is exhausted
\* entering it).
ResetStarts(e) ==
    /\ cookies' = {}
    /\ profiles' # profiles
    /\ headers' \in Identities
    /\ \/ /\ Len(stack') = Len(stack) + 1
          /\ stack'[Len(stack)] = [Top EXCEPT !.pc = "reset", !.exc = e, !.reset = "started"]
          /\ stack'[Len(stack')] = NewFrame("_scopus_auth", "none")
       \/ /\ Len(stack) >= RecursionLimit
          /\ stack' = <<>>
          /\ ret' = Raised("RecursionError")

\* No session reset in this step: jar, identity and profile count are the same.
SessionKept ==
    /\ cookies' = cookies
    /\ headers' = headers
    /\ profiles' = profiles

\* The failure e of this step goes straight to the retry wrapper of the top frame.
HandedToWrapper(e) == stack' = SetTop(stack, [Top EXCEPT !.pc = "sleep", !.exc = e])

\* C1: when every attempt of authenticate, fetchAuthor or fetchAuthorDocuments
\* fails with a retryable error, the call makes exactly 5 attempts with 4 sleeps
\* between them and then propagates the 5th failure: no call is ever in a 6th
\* attempt, has slept 5 times, or waits to retry after its 5th attempt.
C1_FiveAttemptsThenPropagate ==
    \A f \in Frames :
        /\ f.attempt <= stop_retry
        /\ f.sleeps <= stop_retry - 1
        /\ (f.attempt = stop_retry => f.pc # "sleep")

\* C4: a 400, 403 or 404 answer to fetchAuthor / fetchAuthorDocuments ends the
\* call on that attempt with an empty record: the frame is gone (no retry, no
\* sleep) and the cookie jar and identity headers are the ones before the request.
C4_SoftEmptyNoRetryNoReset ==
    [][ (AtFetchRequest /\ resp'.exc = "none" /\ resp'.status \in {400, 403, 404})
            => /\ stack' = Pop(stack)
               /\ ret' = Returned("empty")
               /\ SessionKept ]_vars

C4_Witness ==
    /\ stack = <<>>
    /\ ret = Returned("empty")
    /\ resp.status = 404
    /\ cookies = {"claim", "landing"}

\* The failures of a fetch attempt as the claim C5 lists them: a status outside
\* 2xx other than 400/403/404, a transport-level failure, an undecodable body.
C5_FailureAsClaimed(r) ==
    \/ r.exc # "none"
    \/ r.exc = "none" /\ ~(r.status >= 200 /\ r.status < 300) /\ r.status \notin {400, 403, 404}
    \/ r.exc = "none" /\ r.status >= 200 /\ r.status < 300 /\ ~r.json

\* The same with "4xx/5xx" for "outside 2xx"; a body that cannot be decoded is a
\* decode failure whatever the status that let it through.
C5_FailureAmended(r) ==
    \/ r.exc # "none"
    \/ r.exc = "none" /\ r.status >= 400 /\ r.status < 600 /\ r.status \notin {400, 403, 404}
    \/ r.exc = "none" /\ r.status < 400 /\ ~r.json

C5_ExcOf(r) ==
    IF r.exc # "none" THEN r.exc
    ELSE IF r.status >= 400 THEN "HTTPError" ELSE "JSONDecodeError"

\* C5 as stated: every non-2xx status other than 400/403/404, and every
\* transport or decode failure, of a fetch attempt starts a full session reset
\* in the except clause, before the failure is handed to the retry wrapper.
C5_AsStated ==
    [][ (AtFetchRequest /\ C5_FailureAsClaimed(resp')) => ResetStarts(C5_ExcOf(resp')) ]_vars

\* C5 as amended: a 4xx/5xx status other than 400/403/404, a transport-level
\* failure or a decode failure of a fetch attempt starts a full session reset
\* (jar emptied, identity regenerated, handshake entered) in the except clause; and
\* a fetch call waits to retry only after that reset's handshake has completed.
C5_ResetBeforeRetry ==
    /\ [][ (AtFetchRequest /\ C5_FailureAmended(resp')) => ResetStarts(C5_ExcOf(resp')) ]_vars
    /\ [](\A f \in Frames : (f.fn \in FetchFns /\ f.pc = "sleep") => f.reset = "done")

C5_Witness ==
    /\ stack # <<>> /\ Top.fn \in FetchFns /\ Top.pc = "sleep"
    /\ Top.exc = "HTTPError" /\ Top.reset = "done"
    /\ cookies = {"claim", "landing"}

\* C6: a 4xx/5xx answer to either handshake request starts a full session reset
\* (jar emptied, identity regenerated, handshake entered anew) in the except
\* clause, and the HTTP failure waits for the retry wrapper only after that
\* reset's handshake has completed.
C6_HandshakeHttpFailureResets ==
    /\ [][ (AtAuthRequest /\ resp'.exc = "none" /\ resp'.status >= 400)
              => ResetStarts("HTTPError") ]_vars
    /\ [](\A f \in Frames :
            (f.fn = "_scopus_auth" /\ f.pc = "sleep" /\ f.exc = "HTTPError") => f.reset = "done")

C6_Witness ==
    /\ stack # <<>> /\ Top.fn = "_scopus_auth" /\ Top.pc = "sleep"
    /\ Top.exc = "HTTPError" /\ Top.reset = "done"

\* C7: a proxy or connect-timeout error of a fetch attempt leaves the cookie jar
\* and the identity headers as they were and runs no handshake: the failure goes
\* straight to the retry wrapper, which counts the attempt.
C7_FetchProxyErrorKeepsSession ==
    [][ (AtFetchRequest /\ resp'.exc \in ProxyErrors)
            => SessionKept /\ HandedToWrapper(resp'.exc) ]_vars

\* C8: a proxy or connect-timeout error of a handshake request leaves the cookie
\* jar and the identity headers as they were and goes straight to the retry
\* wrapper of authenticate; the wrapper's sleep then opens the next attempt, so
\* the failed one counted.
C8_HandshakeProxyErrorKeepsSession ==
    /\ [][ (AtAuthRequest /\ resp'.exc \in ProxyErrors)
              => SessionKept /\ HandedToWrapper(resp'.exc) ]_vars
    /\ [][ (stack # <<>> /\ Top.fn = "_scopus_auth" /\ Top.pc = "sleep" /\ Top.exc \in ProxyErrors)
              => /\ Len(stack') = Len(stack)
                 /\ stack'[Len(stack)].attempt = Top.attempt + 1
                 /\ stack'[Len(stack)].pc = "claim"
                 /\ SessionKept ]_vars

C8_Witness ==
    /\ stack # <<>> /\ Top.fn = "_scopus_auth" /\ Top.pc = "claim"
    /\ Top.attempt = 2 /\ Top.reset = "none"
    /\ resp.exc \in ProxyErrors
    /\ cookies = {"claim"}

(***************************************************************************)
(* Properties of the persistence layer.                                    *)
(***************************************************************************)
\* The upserts of the refresh entities on the entities of the store run: the
\* institution's, the author's (with its child rows), the source's, and the
\* document's own row (connector.py:84-85).
RefreshUpserts ==
    {insert_affiliated_institution(e) : e \in StoreInstitutions}
        \cup {insert_author(e) : e \in StoreAuthors}
        \cup {insert_source(e) : e \in StoreSources}
        \cup {<<insert_document(e)[1]>> : e \in StoreDocuments}

RefreshKinds == {"institution", "author", "source", "document"}

\* C9: in every store state, an upsert of a refresh entity (institution, author,
\* source, document) that succeeds, applied once more with the same payload,
\* succeeds again and leaves every table as the first application left it; and
\* whenever the connector has run the same refresh operation twice in a row, the
\* session's tables are those the first run left.
C9_RefreshUpsertTwiceIsOnce ==
    /\ \A op \in RefreshUpserts :
         LET once == Run(session, op) IN
         once.err = "none" =>
             /\ Run(once.tables, op).err = "none"
             /\ Run(once.tables, op).tables = once.tables
    /\ (last.rep /\ last.kind \in RefreshKinds) =>
           (last.err = "none" /\ session = last.before)

\* The author a1 is committed as "F1"; the session then upserted it as "F2"
\* twice in a row.
C9_Witness ==
    /\ last.rep /\ last.kind = "author" /\ last.err = "none"
    /\ last.ent.full_name = "F2"
    /\ \E r \in db.authors : r.id = "a1" /\ r.full_name = "F1"
    /\ \E r \in session.authors : r.id = "a1" /\ r.full_name = "F2"
    /\ session = last.before

\* The child-row statements of insert_author and insert_document (every
\* statement after the entity's own row) on the entities of the store run.
ChildUpserts ==
    UNION { {op[i] : i \in 2..Len(op)} :
            op \in {insert_author(e) : e \in StoreAuthors}
                       \cup {insert_document(e) : e \in StoreDocuments} }

\* C10: in every store state, executing a child-row statement (title, abstract
\* text, name variant, subject-area link, authorship link, source relationship,
\* source link) leaves every row the table already holds in the table as it is,
\* whether the statement inserts, does nothing or fails.
C10_ChildUpsertKeepsExistingRows ==
    \A st \in ChildUpserts :
        \A r \in session[st.table] : r \in Execute(session, st).tables[st.table]

\* The author's name variant was there before the author was upserted again, and
\* is there after.
C10_Witness ==
    /\ last.rep /\ last.kind = "author" /\ last.err = "none"
    /\ [author_id |-> "a1", name |-> "v1"] \in last.before.authors_name_variants
    /\ [author_id |-> "a1", name |-> "v1"] \in session.authors_name_variants
    /\ Len(last.ent.name_variants) = 2

SubjectAreaRows(T, name) == {r \in T.subject_areas : r.name = name}

\* C11: in every store state, upserting the subject area "Computer Science" with
\* only its numeric code and then with only its codename, or in the opposite
\* order, succeeds and leaves exactly one row of that name, holding both the
\* code and the codename.
C11_CodeThenCodenameMerge ==
    \A pair \in {<<CodeOnly, CodenameOnly>>, <<CodenameOnly, CodeOnly>>} :
        LET r == Run(session, insert_subject_area(pair[1]) \o insert_subject_area(pair[2]))
        IN /\ r.err = "none"
           /\ SubjectAreaRows(r.tables, "Computer Science") = {CodeAndCodename}

\* The store held no subject area; the session upserted the code and then the
\* codename, and holds the one merged row.
C11_Witness ==
    /\ db.subject_areas = {}
    /\ last.kind = "subject_area" /\ last.ent = CodenameOnly /\ last.err = "none"
    /\ session.subject_areas = {CodeAndCodename}

\* C12: a subject-area upsert leaves a row of every name the table held, and a
\* code (codename) that row held is still the row's code (codename) unless the
\* upsert's payload supplies one.
C12_StoredFieldNeverCleared ==
    [][ (last'.kind = "subject_area" /\ dbOps' = dbOps + 1) =>
            \A r \in session.subject_areas :
                \E q \in session'.subject_areas :
                    /\ q.name = r.name
                    /\ (r.code # NULL /\ last'.ent.code = NULL) => q.code = r.code
                    /\ (r.codename # NULL /\ last'.ent.codename = NULL)
                           => q.codename = r.codename ]_vars

\* The row held a codename; a code-only upsert acted and the codename is there.
C12_Witness ==
    /\ db.subject_areas = {CodenameOnly}
    /\ last.kind = "subject_area" /\ last.ent = CodeOnly /\ last.err = "none"
    /\ session.subject_areas = {CodeAndCodename}

(***************************************************************************)
(* Properties of the batch driver.                                         *)
(***************************************************************************)
InUnit == pc \in {"insert_authors", "insert_documents"}

\* C2: the committed tables change only in the step of an insert unit all of
\* whose statements succeeded, and then to the tables with every statement of
\* the unit applied; a unit that fails (in validation, at any statement) leaves
\* the committed tables exactly as they were.
C2_UnitWritesAllOrNothing ==
    /\ [][ InUnit => IF unit'.err = "none"
                       THEN /\ unit'.done = Len(unit'.stmts)
                            /\ Run(db, unit'.stmts).err = "none"
                            /\ db' = Run(db, unit'.stmts).tables
                       ELSE db' = db ]_vars
    /\ [][ ~InUnit => db' = db ]_vars

\* An author's unit has committed, and a document's unit failed at a child row
\* after its source, subject area, document row and title had been written:
\* none of them is visible.
C2_Witness ==
    /\ unit.kind = "document" /\ unit.err = "ProgrammingError"
    /\ unit.done >= 4 /\ unit.done < Len(unit.stmts)
    /\ db.documents = {} /\ db.documents_titles = {} /\ db.sources = {}
    /\ \E r \in db.authors : \E v \in db.authors_name_variants : v.author_id = r.id

\* C3: whatever error occurs while one seed author is processed, every later
\* seed author is still processed: main() never ends on an exception while seed
\* authors remain.
C3_EveryLaterSeedProcessed ==
    pc = "raised" => seedIdx >= Len(Seeds)

\* The record at the head of the unit about to run is rejected by validation:
\* an author without a required field, a document without a required field or
\* without any resolvable title.
RejectedByValidation ==
    \/ pc = "insert_authors" /\ ~AuthorValid(Head(authors))
    \/ pc = "insert_documents" /\ DocumentCheck(Head(documents)) # "none"

\* The records of the seed still to insert are the ones left after this step,
\* and main() goes on with them.
SiblingsStillProcessed ==
    /\ pc' # "raised"
    /\ authors' = (IF pc = "insert_authors" THEN Tail(authors) ELSE authors)
    /\ documents' = (IF pc = "insert_documents" THEN Tail(documents) ELSE documents)
    /\ pc' = Onward(authors', documents')

\* C13: a record rejected by validation (a document with no resolvable title
\* included) is skipped in one step with no database write, and main() goes on
\* with the remaining authors and documents of the batch.
C13_ValidationFailureSkipsRecord ==
    [][ RejectedByValidation =>
            /\ db' = db
            /\ unit'.stmts = <<>>
            /\ SiblingsStillProcessed ]_vars

\* C14: a unit that meets a persistence failure (a constraint violation, a
\* statement the server rejects) after some of its statements ran is rolled
\* back, so the committed tables are as before the unit, and main() goes on
\* with the remaining authors and documents of the batch.
C14_PersistenceFailureRollsBackUnit ==
    [][ (InUnit /\ unit'.err \in SQLAlchemyErrors) =>
            /\ db' = db
            /\ SiblingsStillProcessed ]_vars

\* An author's unit failed at a name-variant row after the institution, the
\* subject area and the author row had been written; none of them is visible,
\* and another author and a document are next.
C14_Witness ==
    /\ unit.kind = "author" /\ unit.err = "IntegrityError" /\ unit.done = 3
    /\ db.authors = {} /\ db.authors_affiliated_institutions = {} /\ db.subject_areas = {}
    /\ pc = "insert_authors" /\ authors # <<>> /\ documents # <<>>

\* C15: every document the driver keeps for the insert step has a publication
\* year of the allowed set.
C15_KeptDocumentsInPubYear ==
    \A i \in 1..Len(documents) : documents[i].pubYear \in PUB_YEAR

\* The author at the head of the unit about to run is valid and its resolved
\* affiliated-institution id is outside the allowed set.
OutsideInstitution ==
    /\ pc = "insert_authors"
    /\ AuthorValid(Head(authors))
    /\ AuthorModel(Head(authors)).affiliated_institution_id \notin OMSTU_AFF_INST_IDS

\* C16: the unit of an author whose affiliated-institution id is outside the
\* allowed set writes no row at all, and every author row and institution row
\* of the committed tables carries an institution id of the allowed set.
C16_OnlyAllowedInstitutionPersisted ==
    /\ [][ OutsideInstitution => db' = db /\ unit'.stmts = <<>> ]_vars
    /\ [](/\ \A r \in db.authors : r.affiliated_institution_id \in OMSTU_AFF_INST_IDS
          /\ \A r \in db.authors_affiliated_institutions : r.id \in OMSTU_AFF_INST_IDS)

\* An author of another institution has been skipped while an author of the
\* institution is stored.
C16_Witness ==
    /\ unit.kind = "author" /\ unit.err = "filtered"
    /\ db.authors # {}
    /\ db.authors_affiliated_institutions = {[id |-> "60075514", name |-> "n1"]}

\* C17: while the author list of a seed is built, no get_author call is in
\* progress for an author id that has a row in authors.
C17_NoFetchForStoredAuthor ==
    \A i \in 1..Len(stack) :
        stack[i].fn = "get_author" => ~record_exists(db, "authors", "id", stack[i].arg)

\* The second seed's documents name a1 and a2; a1 has a row and was passed
\* over, a2 is being fetched.
C17_Witness ==
    /\ seedIdx = 2 /\ pc = "get_author" /\ documents # <<>>
    /\ record_exists(db, "authors", "id", "a1")
    /\ \E i \in 1..Len(stack) : stack[i].fn = "get_author" /\ stack[i].arg = "a2"

\* C18: no document the driver keeps for the insert step has a scopus_id that
\* has a row in documents.
C18_NoStoredDocumentKept ==
    \A i \in 1..Len(documents) :
        ~record_exists(db, "documents", "scopus_id", documents[i].scopusId)

\* C19: the conflict key of every upsert is a uniqueness constraint of its
\* table, so no connector operation fails because its ON CONFLICT target
\* matches no constraint: each statement of the operation the connector ran
\* last names a unique index of its table, and the operation did not end in
\* the server's ProgrammingError.
C19_ConflictKeyIsUniqueConstraint ==
    last.kind \in {"institution", "subject_area", "author", "source", "document"} =>
        /\ last.err # "ProgrammingError"
        /\ LET stmts == CASE last.kind = "institution" -> insert_affiliated_institution(last.ent)
                          [] last.kind = "subject_area" -> insert_subject_area(last.ent)
                          [] last.kind = "author" -> insert_author(last.ent)
                          [] last.kind = "source" -> insert_source(last.ent)
                          [] last.kind = "document" -> insert_document(last.ent)
           IN \A i \in 1..Len(stmts) : stmts[i].index \in Schema[stmts[i].table].unique

\* The statements of insert_document that write the document's own row, its
\* title rows and its abstract-text rows (connector.py:84-95).
DocumentAndTexts(d) ==
    SubSeq(insert_document(d), 1, 1 + Len(d.titles) + Len(d.abstract_texts))

\* C20: title and abstract texts are unique per document only: in every store
\* state with a usable transaction, writing a document's row with its titles
\* and abstract texts succeeds and leaves a row for each of its texts,
\* whatever texts the rows of other documents hold.
C20_SameTextInTwoDocuments ==
    ~txFailed =>
        \A d \in StoreDocuments :
            LET r == Run(session, DocumentAndTexts(d)) IN
            /\ r.err = "none"
            /\ \A i \in 1..Len(d.titles) :
                   [document_id |-> d.scopus_id, title |-> d.titles[i]]
                       \in r.tables.documents_titles
            /\ \A i \in 1..Len(d.abstract_texts) :
                   [document_id |-> d.scopus_id, text |-> d.abstract_texts[i]]
                       \in r.tables.documents_abstract_texts

(***************************************************************************)
(* Properties of the validation layer.                                     *)
(***************************************************************************)
\* The distinct non-blank strings among the singular title and the titles
\* list, surrounding whitespace set aside.
DistinctNonBlankTitles(raw) ==
    {str_strip_whitespace(t) :
        t \in {u \in (IF raw.titles_is_list THEN Range(raw.titles) ELSE {})
                         \cup {raw.title} : u # NULL}} \ {""}

\* C21: the titles of a validated document are exactly the distinct non-blank
\* strings among the singular title and the titles list, each once; when there
\* is none, validation fails.
C21_TitlesAreTheDistinctNonBlank ==
    (given.kind = "document" /\ result # Pending) =>
        IF DistinctNonBlankTitles(given) = {}
          THEN result.err # "none"
        ELSE /\ result.err = "none"
             /\ Range(result.titles) = DistinctNonBlankTitles(given)
             /\ Len(result.titles) = Cardinality(DistinctNonBlankTitles(given))

\* C22: a raw code that is not purely numeric becomes the codename (emptied to
\* null when it is ''), and the numeric code is absent; a purely numeric one
\* stays the numeric code and sets no codename; a record is rejected only for a
\* missing name or a code that is not positive.
C22_NonNumericCodeBecomesCodename ==
    (given.kind = "subject_area" /\ result # Pending) =>
        /\ result.err # "none" <=> (given.name = NULL \/ given.code = "0")
        /\ (result.err = "none" /\ given.code # NULL) =>
               IF IsDecimal(given.code)
                 THEN result.code = given.code /\ result.codename = NULL
               ELSE result.code = NULL
                    /\ result.codename = empty_value_to_none(given.code)

\* The code 'COMP' was validated: it is the codename, and there is no code.
C22_Witness ==
    /\ given.kind = "subject_area" /\ given.code = "COMP"
    /\ result.err = "none" /\ result.codename = "COMP" /\ result.code = NULL

(***************************************************************************)
(* Properties of the client's construction and session.                    *)
(***************************************************************************)
\* C23: once the client is made, a construction returns the same instance with
\* the same proxy configuration, whatever proxies it is given, and every
\* request is sent with the configuration of the first construction.
C23_OneInstanceFirstProxies ==
    /\ [][ instance.made => instance' = instance ]_vars
    /\ [](sent # <<>> => sent[1].proxies = instance.proxies)

\* The client was made with p1 for both schemes, constructed again with p2, and
\* a request then went through p1.
C23_Witness ==
    /\ instance.made /\ instance.proxies = [s \in Schemes |-> "p1"]
    /\ asked = [s \in Schemes |-> "p2"]
    /\ sent = << [by |-> "get_author", proxies |-> [s \in Schemes |-> "p1"]] >>

\* A handshake is entered from __enter__ in this step (not from a session reset).
HandshakeFromEnter ==
    stack = <<>> /\ stack' # <<>> /\ stack'[1].fn = "_scopus_auth"

\* C24: the session is acquired and authenticated once and released at the end
\* of the run only: no client call is made or in progress once the session has
\* been closed, and the only handshake entered from __enter__ is the first one
\* (every later handshake belongs to a session reset).
C24_SessionAcquiredOnce ==
    /\ [](closed => stack = <<>>)
    /\ [][ HandshakeFromEnter => (~closed /\ headers = "none") ]_vars

\* C25: the chain authenticate -> session reset -> authenticate does not nest
\* without bound: whatever the handshake's requests answer, the call that
\* started it never ends because the nesting has used up the interpreter's
\* stack; with HTTP failures the caller gets the HTTP failure.
C25_HandshakeNestingBounded ==
    ret.kind = "raise" => ret.val = "HTTPError"

\* The session holds what a completed two-step handshake leaves, and nothing
\* has cleared it since.
Authenticated == cookies = {"claim", "landing"}

\* C26: under the driver, a get_author / get_author_documents request is about
\* to be issued only while the session is authenticated: both steps of a
\* handshake have succeeded since the client was entered and since the most
\* recent session reset.
C26_FetchOnlyWhileAuthenticated ==
    AtFetchRequest => Authenticated

\* A fetch failed, the session was reset (cookies cleared) and its handshake
\* completed; after the sleep the fetch is about to be sent again.
C26_Witness ==
    /\ pc = "get_author" /\ AtFetchRequest /\ Top.attempt = 2
    /\ Authenticated

\* The handshake of the top frame comes to its landing request in this step.
LandingNext ==
    /\ stack' # <<>> /\ stack'[Len(stack')].fn = "_scopus_auth"
    /\ stack'[Len(stack')].pc = "landing"
    /\ ~(stack # <<>> /\ Len(stack') = Len(stack) /\ Top.pc = "landing")

\* C27: in one attempt of the handshake the landing request comes only after
\* the claim request of the same attempt was answered without failure (no
\* transport error, no 4xx/5xx status); a failed claim request is never
\* followed by a landing request in its attempt.
C27_LandingOnlyAfterClaim ==
    [][ LandingNext =>
            /\ stack # <<>> /\ Len(stack') = Len(stack)
            /\ Top.fn = "_scopus_auth" /\ Top.pc = "claim"
            /\ stack'[Len(stack')].attempt = Top.attempt
            /\ resp'.exc = "none" /\ resp'.status < 400 ]_vars

\* The first attempt's claim request failed and was retried; the second
\* attempt's claim request succeeded and its landing request is next.
C27_Witness ==
    /\ stack # <<>> /\ Top.fn = "_scopus_auth" /\ Top.pc = "landing"
    /\ Top.attempt = 2 /\ resp.exc = "none" /\ resp.status = 200
    /\ cookies = {"claim"}

\* The row that statement i of stmts writes refers, by the foreign key fk, to a
\* row that an earlier statement of stmts writes.
WrittenBefore(stmts, i, fk) ==
    \E j \in 1..(i - 1) :
        /\ stmts[j].table = fk.table
        /\ stmts[j].rec[fk.ref] = stmts[i].rec[fk.col]

\* C28: in the statements of a unit, in the order they are sent, every row
\* comes after the rows it refers to (the author rows an authorship link refers
\* to are written by author units); and once the document units of a seed have
\* begun, no author unit runs before the next seed.
C28_ReferencedRowsWrittenFirst ==
    /\ [](\A i \in 1..Len(unit.stmts) :
            \A fk \in Schema[unit.stmts[i].table].fks :
                \/ unit.kind = "document" /\ fk.table = "authors"
                \/ WrittenBefore(unit.stmts, i, fk))
    /\ [][ pc = "insert_documents" => pc' \in {"insert_documents", "seed", "raised"} ]_vars

\* An author's unit has committed its five statements (institution, subject
\* area, author, name variant, subject-area link) and the documents are next.
C28_Witness ==
    /\ unit.kind = "author" /\ unit.err = "none" /\ unit.done = 5
    /\ unit.stmts[1].table = "authors_affiliated_institutions"
    /\ unit.stmts[5].table = "authors_subject_areas"
    /\ pc = "insert_documents"

\* The authors that raw document d lists and that have no row in authors of T.
UnstoredAuthors(T, d) ==
    {a \in Range(d.authors) : ~record_exists(T, "authors", "id", a)}

\* Tables T with the document row that authorship statement st refers to.
WithParentRow(T, st) ==
    [T EXCEPT !.documents =
        @ \cup {[scopus_id |-> st.rec.document_id, main_title |-> "T1", eid |-> "e1"]}]

C30_SoftEmptyAuthorWritesNothing ==
    /\ [][ (pc = "get_author" /\ ret.kind = "return" /\ ret.val = "empty"
              /\ pc' # pc) =>
               /\ authors' = Append(authors, EmptyAuthorJson)
               /\ pc' = "get_authors"
               /\ db' = db ]_vars
    /\ [][ (pc = "insert_authors" /\ Head(authors) = EmptyAuthorJson) =>
               /\ unit'.err = "ValidationError"
               /\ unit'.stmts = <<>>
               /\ db' = db
               /\ SiblingsStillProcessed ]_vars

\* The unit of an empty record ended in a validation error, and a document of
\* the same seed is next.
C30_Witness ==
    /\ unit.kind = "author" /\ unit.id = NULL /\ unit.err = "ValidationError"
    /\ unit.stmts = <<>>
    /\ pc = "insert_documents" /\ documents # <<>>

\* C31: a subject-area upsert whose payload has both a code and a codename, or
\* neither, sent in a usable transaction, completes without error, and a row
\* of that name that the table held is left as it was.
C31_EmptyUpdateSetLeavesRow ==
    [][ (/\ last'.kind = "subject_area" /\ dbOps' = dbOps + 1 /\ ~txFailed
         /\ last'.ent \in {CodeAndCodename, Unclassified}) =>
            /\ last'.err = "none"
            /\ SubjectAreaRows(session, last'.ent.name) # {} =>
                   SubjectAreaRows(session', last'.ent.name)
                       = SubjectAreaRows(session, last'.ent.name) ]_vars

\* C32: a validated document has at least one title, none of its titles is
\* empty, and no two of them are equal.
C32_TitlesNonEmptyAndDistinct ==
    (given.kind = "document" /\ result.err = "none") =>
        /\ Len(result.titles) >= 1
        /\ \A i \in 1..Len(result.titles) : result.titles[i] \notin {NULL, "", " "}
        /\ \A i, j \in 1..Len(result.titles) :
               result.titles[i] = result.titles[j] => i = j

\* The payload has a non-empty title, the other required fields, and no key
\* 'main_title'.
TitledWithoutMainTitle(raw) ==
    /\ raw.title \notin {NULL, ""}
    /\ raw.scopusId # NULL /\ raw.eid # NULL /\ raw.pubYear > 0
    /\ raw.source.id # NULL /\ raw.source.title # NULL
    /\ \A i \in 1..Len(raw.subjectAreas) : SubjectAreaValid(raw.subjectAreas[i])
    /\ raw.main_title = NULL

\* C33: validating a payload with a non-empty title, the other required
\* fields and no key 'main_title' succeeds, and the record's main_title is
\* that title.
C33_MainTitleIsTheTitle ==
    (given.kind = "raw_document" /\ result # Pending
        /\ TitledWithoutMainTitle(given.raw)) =>
            /\ result.err = "none"
            /\ result.document.main_title = given.raw.title

====
